---- MODULE Spec2Model ----
(***************************************************************************)
(* Reviewer-assignment service (prreviewer): the four tables of            *)
(* migrations/001_init.up.sql, the statements of internal/repo/repo.go and *)
(* the request handlers of internal/service/service.go.                    *)
(*                                                                         *)
(* Every request is served by its own goroutine; a request is a sequence   *)
(* of SQL statements against one PostgreSQL database (READ COMMITTED).     *)
(* One action of the model is one repository call of one request: a single *)
(* statement, or a whole short write transaction (Begin .. Commit), whose  *)
(* writes become visible to the other requests at its commit.              *)
(***************************************************************************)
EXTENDS Integers, FiniteSets, Sequences, TLC

----------------------------------------------------------------------------
(* Bounds of the model.                                                    *)

\* Number of requests a behaviour of Spec (overlapping requests) may start.
MaxOps == 3

\* Number of requests a behaviour of SpecSeq (one request at a time) may start.
MaxSeqOps == 3

\* The part of MaxOps that a behaviour of SpecStale has spent when it starts:
\* its first state is a database that earlier requests have filled.
StaleOps == 1

\* service.go:86  candidatesCount := 2
candidatesCount == 2

\* The request slots: two requests can be in flight at the same time.
Procs == {"w1", "w2"}

\* Identifiers the requests draw their arguments from.
TeamNames == {"t1", "t2", "t3"}
UserIds   == {"u1", "u2", "u3", "u4", "u5", "u6", "u8", "u9"}
PRIds     == {"p1", "p2"}

\* Marks a row that is not in its table.
NoRow == [absent |-> TRUE]

\* The empty string of the Go code (no replacement, no argument).
None == ""

----------------------------------------------------------------------------
(* State.                                                                  *)

VARIABLES
    teams,      \* table teams: the set of team_name
    users,      \* table users: user_id -> NoRow or [username, team_name, is_active]
    prs,        \* table pull_requests: id -> NoRow or [name, author, status, mergedAt]
    reviewers,  \* table pr_reviewers (PK (pr, user)): id -> set of user_id
    now,        \* the database clock NOW(), a logical time
    pc,         \* per request slot: the repository call the request is about to make
    loc,        \* per request slot: the request's arguments and local variables
    result,     \* per request slot: what the last finished request returned
    ops,        \* number of requests started so far
    serial,     \* TRUE: the clients send one request at a time (never changes)
    before,     \* serial clients: the tables when the request in flight arrived
    raced       \* requests inside a call on rng that overlapped another such call

vars == <<teams, users, prs, reviewers, now, pc, loc, result, ops, serial, before, raced>>
db   == <<teams, users, prs, reviewers, now>>

\* The persisted state: the four tables.
tables == <<teams, users, prs, reviewers>>

----------------------------------------------------------------------------
(* Rows and queries of internal/repo/repo.go.                              *)

UserRow(name, team, active) == [username |-> name, team_name |-> team, is_active |-> active]

\* Variant of TeamExists that finds no team.
TeamExists_Never(name) == FALSE

\* Variant of TeamExists that finds every name.
TeamExists_Always(name) == TRUE

\* SELECT EXISTS(SELECT 1 FROM teams WHERE team_name=$1)
TeamExists(name) == name \in teams

\* Variant of PRExists that finds no row.
PRExists_Never(prID) == FALSE

\* SELECT EXISTS(SELECT 1 FROM pull_requests WHERE pull_request_id=$1)
PRExists(prID) == prs[prID] # NoRow

\* Variant of GetUser that answers an unknown id with a default row.
GetUser_Default(uid) == IF users[uid] = NoRow THEN UserRow(uid, "t1", TRUE) ELSE users[uid]

\* GetUser: the row, or NoRow for ErrNotFound
GetUser(uid) == users[uid]

\* SELECT user_id FROM users WHERE team_name=$1 AND is_active=true
ActiveOfTeam(us, teamName) ==
    {u \in UserIds : us[u] # NoRow /\ us[u].team_name = teamName /\ us[u].is_active}

\* Variant of GetActiveTeamMembers that ignores the exclusion list.
GetActiveTeamMembers_NoExclude(teamName, excludeIDs) == ActiveOfTeam(users, teamName)

\* GetActiveTeamMembers: the active members of the team that are not excluded
GetActiveTeamMembers(teamName, excludeIDs) ==
    {u \in ActiveOfTeam(users, teamName) : u \notin excludeIDs}

\* Variant of GetPR that answers an unknown id with an empty MERGED PR.
GetPR_Phantom(prID) ==
    IF prs[prID] = NoRow
    THEN [id |-> prID, name |-> None, author |-> None, status |-> "MERGED",
          mergedAt |-> 0, reviewers |-> {}]
    ELSE [id |-> prID, name |-> prs[prID].name, author |-> prs[prID].author,
          status |-> prs[prID].status, mergedAt |-> prs[prID].mergedAt,
          reviewers |-> reviewers[prID]]

\* GetPR: the pull_requests row joined with its pr_reviewers rows
GetPR(prID) ==
    IF prs[prID] = NoRow THEN NoRow
    ELSE [id |-> prID, name |-> prs[prID].name, author |-> prs[prID].author,
          status |-> prs[prID].status, mergedAt |-> prs[prID].mergedAt,
          reviewers |-> reviewers[prID]]

\* Variant of pickRandomReviewers that never trims to n.
pickRandomReviewers_NoTrim(candidates, n) == {candidates}

\* pickRandomReviewers: every outcome the shuffle can give, as reviewer sets
pickRandomReviewers(candidates, n) ==
    IF Cardinality(candidates) <= n THEN {candidates}
    ELSE {s \in SUBSET candidates : Cardinality(s) = n}

\* Variant of contains that finds every item.
contains_Always(slice, item) == TRUE

\* contains(slice, item)
contains(slice, item) == item \in slice

----------------------------------------------------------------------------
(* Requests.                                                               *)

NoLoc == [prID |-> None, prName |-> None, uid |-> None, active |-> FALSE,
          teamName |-> None, members |-> {},
          team |-> None, revs |-> {}, author |-> None, picked |-> {},
          deactivated |-> {}, affected |-> {}, candidates |-> <<>>, userTeams |-> <<>>,
          counts |-> <<>>, byUser |-> <<>>, pool |-> {}, draw |-> <<>>]

NoResult == [op |-> None, err |-> None, prID |-> None, pr |-> NoRow, uid |-> None,
             user |-> NoRow, replacedBy |-> None, deactivated |-> {},
             reassignments |-> {}, teamName |-> None, team |-> NoRow,
             reviews |-> {}, stats |-> NoRow]

\* The errors of service.go:13-23; Internal is any other (storage) error, which
\* the handlers answer with 500 INTERNAL_ERROR.
OK == "ok"
Internal == "Internal"

\* A statement that fails in the storage (connection lost, request cancelled):
\* the driver's error is returned as is, and answered 500 INTERNAL_ERROR too.
Unavailable == "Unavailable"

\* No request of a serial client is in flight.
NoBefore == <<>>

Idle(p) == pc[p] = "idle"

\* main.go:61, service.go:25-32  the one *rand.Rand every request uses, with no
\* lock around it: a request is inside a call on it from the moment it makes the
\* call until the call returns.
RngLabels == {"CreatePullRequest_Shuffle", "ReassignReviewer_Intn", "DeactivateTeam_Intn"}

InRng(p) == pc[p] \in RngLabels

\* The slot the next request takes.
Beginner ==
    IF serial THEN (IF ops % 2 = 0 THEN "w1" ELSE "w2")
    ELSE (IF Idle("w1") THEN "w1" ELSE "w2")

\* A request arrives on a free slot. Its first repository call is part of the
\* same step: nothing of the request is observable before it.
\* Serial clients alternate between the two slots, so that the answers to the
\* last two requests are kept; overlapping requests take the first free slot.
Begin(p) ==
    /\ Idle(p)
    /\ IF serial
       THEN ops < MaxSeqOps /\ \A q \in Procs : Idle(q)
       ELSE ops < MaxOps
    /\ p = Beginner
    /\ ops' = ops + 1
    /\ serial' = serial

\* A request in flight makes its next repository call.
At(p, label) ==
    /\ pc[p] = label
    /\ UNCHANGED <<ops, serial>>

\* A request that returns: its slot is free again and holds what it returned.
Return(p, res) ==
    /\ pc' = [pc EXCEPT ![p] = "idle"]
    /\ loc' = [loc EXCEPT ![p] = NoLoc]
    /\ result' = [result EXCEPT ![p] = res]
    /\ before' = NoBefore
    /\ raced' = raced \ {p}

\* A request that goes on to its next repository call.
Goto(p, label, l) ==
    /\ pc' = [pc EXCEPT ![p] = label]
    /\ loc' = [loc EXCEPT ![p] = l]
    /\ result' = [result EXCEPT ![p] = NoResult]
    /\ before' = IF ~serial THEN NoBefore ELSE IF Idle(p) THEN tables ELSE before
    /\ raced' = IF label \in RngLabels /\ \E q \in Procs \ {p} : InRng(q)
                THEN raced \cup {p} \cup {q \in Procs : InRng(q)}
                ELSE raced \ {p}

----------------------------------------------------------------------------
(* POST /team/add: Service.CreateTeam.                                     *)

\* Rows of users that an open DeactivateTeam transaction of another request
\* has updated and not yet committed: an UPDATE of such a row waits.
InDeactivateTx(q) ==
    pc[q] \in {"DeactivateTeam_getAffectedPRs", "DeactivateTeam_getActiveUsersByTeam",
               "DeactivateTeam_Intn", "DeactivateTeam_reassignReviewers"}

Locked(u, p) == \E q \in Procs \ {p} : InDeactivateTx(q) /\ u \in loc[q].deactivated

\* service.go:35-41  TeamExists pre-check
CreateTeam_TeamExists(p, team) ==
    /\ Begin(p)
    /\ IF TeamExists(team.team_name)
       THEN Return(p, [NoResult EXCEPT !.op = "CreateTeam", !.err = "TeamExists",
                                       !.teamName = team.team_name])
       ELSE Goto(p, "CreateTeam_CreateTeam",
                 [NoLoc EXCEPT !.teamName = team.team_name, !.members = team.members])
    /\ UNCHANGED db

\* Variant of UpsertMembers whose INSERT leaves an existing row as it is.
UpsertMembers_InsertOnly(teamName, members) ==
    [u \in UserIds |->
        IF users[u] = NoRow /\ \E m \in members : m.user_id = u
        THEN LET row == CHOOSE m \in members : m.user_id = u
             IN UserRow(row.username, teamName, row.is_active)
        ELSE users[u]]

\* The users table after the upserts of repo.go:42-52
UpsertMembers(teamName, members) ==
    [u \in UserIds |->
        IF \E m \in members : m.user_id = u
        THEN LET row == CHOOSE m \in members : m.user_id = u
             IN UserRow(row.username, teamName, row.is_active)
        ELSE users[u]]

\* repo.go:30-55  one transaction: INSERT team, upsert every member, commit
CreateTeam_CreateTeam(p) ==
    /\ At(p, "CreateTeam_CreateTeam")
    /\ LET name == loc[p].teamName
           res == [NoResult EXCEPT !.op = "CreateTeam", !.teamName = name]
       IN IF TeamExists(name)
          THEN \* unique violation on teams(team_name): the error is returned as is
               /\ Return(p, [res EXCEPT !.err = Internal])
               /\ UNCHANGED db
          ELSE /\ \A m \in loc[p].members : ~Locked(m.user_id, p)
               /\ teams' = teams \cup {name}
               /\ users' = UpsertMembers(name, loc[p].members)
               /\ Return(p, [res EXCEPT !.err = OK])
               /\ UNCHANGED <<prs, reviewers, now>>

----------------------------------------------------------------------------
(* POST /users/setIsActive: Service.SetUserActive.                         *)

\* Variant of UpdateUserActiveStatus that also unassigns a deactivated user.
UpdateUserActiveStatus_Unassigns(uid, active) ==
    /\ users' = [users EXCEPT ![uid].is_active = active]
    /\ reviewers' = [id \in PRIds |->
                        IF active THEN reviewers[id] ELSE reviewers[id] \ {uid}]
    /\ UNCHANGED <<teams, prs, now>>

\* Variant of UpdateUserActiveStatus that flips the flag of the row.
UpdateUserActiveStatus_Toggles(uid, active) ==
    /\ users' = [users EXCEPT ![uid].is_active = ~users[uid].is_active]
    /\ UNCHANGED <<teams, prs, reviewers, now>>

\* UPDATE users SET is_active=$1 WHERE user_id=$2, of a row that exists
UpdateUserActiveStatus(uid, active) ==
    /\ users' = [users EXCEPT ![uid].is_active = active]
    /\ UNCHANGED <<teams, prs, reviewers, now>>

\* repo.go:97-106  the UPDATE; no row affected is ErrNotFound
SetUserActive_UpdateUserActiveStatus(p, uid, active) ==
    /\ Begin(p)
    /\ ~Locked(uid, p)
    /\ IF users[uid] = NoRow
       THEN /\ Return(p, [NoResult EXCEPT !.op = "SetUserActive", !.err = "UserNotFound",
                                          !.uid = uid])
            /\ UNCHANGED db
       ELSE /\ UpdateUserActiveStatus(uid, active)
            /\ Goto(p, "SetUserActive_GetUser", [NoLoc EXCEPT !.uid = uid, !.active = active])

\* service.go:61  the re-read of the user
SetUserActive_GetUser(p) ==
    /\ At(p, "SetUserActive_GetUser")
    /\ Return(p, [NoResult EXCEPT !.op = "SetUserActive", !.uid = loc[p].uid,
                     !.err = IF GetUser(loc[p].uid) = NoRow THEN Internal ELSE OK,
                     !.user = GetUser(loc[p].uid)])
    /\ UNCHANGED db

----------------------------------------------------------------------------
(* POST /pullRequest/create: Service.CreatePullRequest.                    *)

\* service.go:65-71  PRExists pre-check
CreatePullRequest_PRExists(p, prID, prName, authorID) ==
    /\ Begin(p)
    /\ IF PRExists(prID)
       THEN Return(p, [NoResult EXCEPT !.op = "CreatePullRequest", !.err = "PRExists",
                                       !.prID = prID, !.uid = authorID])
       ELSE Goto(p, "CreatePullRequest_GetUser",
                 [NoLoc EXCEPT !.prID = prID, !.prName = prName, !.uid = authorID])
    /\ UNCHANGED db

\* service.go:73-79  the author's row
CreatePullRequest_GetUser(p) ==
    /\ At(p, "CreatePullRequest_GetUser")
    /\ LET author == GetUser(loc[p].uid)
       IN IF author = NoRow
          THEN Return(p, [NoResult EXCEPT !.op = "CreatePullRequest",
                             !.err = "AuthorNotFound", !.prID = loc[p].prID,
                             !.uid = loc[p].uid])
          ELSE Goto(p, "CreatePullRequest_GetActiveTeamMembers",
                    [loc[p] EXCEPT !.team = author.team_name])
    /\ UNCHANGED db

\* service.go:81-87, 202-210  the candidates; candidatesCount of them or fewer are
\* the reviewers, more are shuffled: the request calls rng.Shuffle
CreatePullRequest_GetActiveTeamMembers(p) ==
    /\ At(p, "CreatePullRequest_GetActiveTeamMembers")
    /\ LET candidates == GetActiveTeamMembers(loc[p].team, {loc[p].uid})
       IN IF Cardinality(candidates) <= candidatesCount
          THEN \E picked \in pickRandomReviewers(candidates, candidatesCount) :
                  Goto(p, "CreatePullRequest_CreatePR", [loc[p] EXCEPT !.picked = picked])
          ELSE Goto(p, "CreatePullRequest_Shuffle", [loc[p] EXCEPT !.pool = candidates])
    /\ UNCHANGED db

\* What a call on rng can do: return one of its values, or, when it overlapped
\* another call (a data race on the state of the generator), panic; the
\* Recoverer middleware (main.go:93) answers a panic with 500.
Panics(p) == IF p \in raced THEN BOOLEAN ELSE {FALSE}

\* service.go:208-212  rng.Shuffle returns: the first candidatesCount of the
\* shuffled candidates are the reviewers
Shuffle(p) ==
    /\ At(p, "CreatePullRequest_Shuffle")
    /\ \E panic \in Panics(p), picked \in pickRandomReviewers(loc[p].pool, candidatesCount) :
          IF panic
          THEN Return(p, [NoResult EXCEPT !.op = "CreatePullRequest", !.err = Internal,
                                          !.prID = loc[p].prID, !.uid = loc[p].uid])
          ELSE Goto(p, "CreatePullRequest_CreatePR", [loc[p] EXCEPT !.picked = picked])
    /\ UNCHANGED db

\* Variant of PRInsertConflict for an INSERT .. ON CONFLICT DO UPDATE.
PRInsertConflict_Upsert(prID) == FALSE

\* repo.go:151-156  the INSERT hits the primary key of pull_requests
PRInsertConflict(prID) == prs[prID] # NoRow

\* repo.go:144-168  one transaction: INSERT the PR, INSERT its reviewers, commit
CreatePullRequest_CreatePR(p) ==
    /\ At(p, "CreatePullRequest_CreatePR")
    /\ LET prID == loc[p].prID
       IN IF PRInsertConflict(prID)
          THEN \* unique violation on pull_requests(pull_request_id), returned as is
               /\ Return(p, [NoResult EXCEPT !.op = "CreatePullRequest", !.err = Internal,
                                !.prID = prID, !.uid = loc[p].uid])
               /\ UNCHANGED db
          ELSE /\ prs' = [prs EXCEPT ![prID] =
                            [name |-> loc[p].prName, author |-> loc[p].uid,
                             status |-> "OPEN", mergedAt |-> 0]]
               /\ reviewers' = [reviewers EXCEPT ![prID] = loc[p].picked]
               /\ Goto(p, "CreatePullRequest_GetPR", loc[p])
               /\ UNCHANGED <<teams, users, now>>

\* service.go:101  the re-read of the PR
CreatePullRequest_GetPR(p) ==
    /\ At(p, "CreatePullRequest_GetPR")
    /\ Return(p, [NoResult EXCEPT !.op = "CreatePullRequest", !.prID = loc[p].prID,
                     !.uid = loc[p].uid,
                     !.err = IF GetPR(loc[p].prID) = NoRow THEN Internal ELSE OK,
                     !.pr = GetPR(loc[p].prID)])
    /\ UNCHANGED db

----------------------------------------------------------------------------
(* POST /pullRequest/merge: Service.MergePullRequest.                      *)

\* Variant of MergeOfMerged that refuses the second merge.
MergeOfMerged_Conflict(res, currentPR) == [res EXCEPT !.err = "PRMerged"]

\* service.go:113-115  the answer to a merge of an already MERGED PR
MergeOfMerged(res, currentPR) == [res EXCEPT !.err = OK, !.pr = currentPR]

\* service.go:105-115  the current PR; an already MERGED one is returned as it is
MergePullRequest_GetPR(p, prID) ==
    /\ Begin(p)
    /\ LET currentPR == GetPR(prID)
           res == [NoResult EXCEPT !.op = "MergePullRequest", !.prID = prID]
       IN IF currentPR = NoRow
          THEN Return(p, [res EXCEPT !.err = "PRNotFound"])
          ELSE IF currentPR.status = "MERGED"
          THEN Return(p, MergeOfMerged(res, currentPR))
          ELSE Goto(p, "MergePullRequest_MergePR", [NoLoc EXCEPT !.prID = prID])
    /\ UNCHANGED db

\* Variant of MergePR whose UPDATE has no `AND status='OPEN'`.
MergePR_AnyStatus(prID) ==
    IF prs[prID] # NoRow
    THEN /\ prs' = [prs EXCEPT ![prID].status = "MERGED", ![prID].mergedAt = now]
         /\ now' = now + 1
    ELSE UNCHANGED <<prs, now>>

\* UPDATE pull_requests SET status='MERGED', merged_at=NOW()
\*   WHERE pull_request_id=$1 AND status='OPEN'
MergePR(prID) ==
    IF prs[prID] # NoRow /\ prs[prID].status = "OPEN"
    THEN /\ prs' = [prs EXCEPT ![prID].status = "MERGED", ![prID].mergedAt = now]
         /\ now' = now + 1
    ELSE UNCHANGED <<prs, now>>

\* repo.go:215-231
MergePullRequest_MergePR(p) ==
    /\ At(p, "MergePullRequest_MergePR")
    /\ MergePR(loc[p].prID)
    /\ IF PRExists(loc[p].prID)
       THEN Goto(p, "MergePullRequest_GetPR2", loc[p])
       ELSE Return(p, [NoResult EXCEPT !.op = "MergePullRequest", !.err = Internal,
                                       !.prID = loc[p].prID])
    /\ UNCHANGED <<teams, users, reviewers>>

\* service.go:120  the re-read of the PR
MergePullRequest_GetPR2(p) ==
    /\ At(p, "MergePullRequest_GetPR2")
    /\ Return(p, [NoResult EXCEPT !.op = "MergePullRequest", !.prID = loc[p].prID,
                     !.err = IF GetPR(loc[p].prID) = NoRow THEN Internal ELSE OK,
                     !.pr = GetPR(loc[p].prID)])
    /\ UNCHANGED db

----------------------------------------------------------------------------
(* POST /pullRequest/reassign: Service.ReassignReviewer.                   *)

\* Variant of ReassignChecks that looks for the old reviewer before the status.
ReassignChecks_AssignedFirst(pr, oldReviewerID) ==
    IF pr = NoRow THEN "PRNotFound"
    ELSE IF ~contains(pr.reviewers, oldReviewerID) THEN "NotAssigned"
    ELSE IF pr.status = "MERGED" THEN "PRMerged"
    ELSE OK

\* service.go:125-138  the checks on the PR that GetPR returned, in their order
ReassignChecks(pr, oldReviewerID) ==
    IF pr = NoRow THEN "PRNotFound"
    ELSE IF pr.status = "MERGED" THEN "PRMerged"
    ELSE IF ~contains(pr.reviewers, oldReviewerID) THEN "NotAssigned"
    ELSE OK

\* service.go:124-138  the PR, and the checks on it
ReassignReviewer_GetPR(p, prID, oldReviewerID) ==
    /\ Begin(p)
    /\ LET pr == GetPR(prID)
           res == [NoResult EXCEPT !.op = "ReassignReviewer", !.prID = prID,
                                   !.uid = oldReviewerID]
       IN IF ReassignChecks(pr, oldReviewerID) # OK
          THEN Return(p, [res EXCEPT !.err = ReassignChecks(pr, oldReviewerID)])
          ELSE Goto(p, "ReassignReviewer_GetUser",
                    [NoLoc EXCEPT !.prID = prID, !.uid = oldReviewerID,
                                  !.revs = pr.reviewers, !.author = pr.author])
    /\ UNCHANGED db

\* service.go:140-143  the old reviewer's row
ReassignReviewer_GetUser(p) ==
    /\ At(p, "ReassignReviewer_GetUser")
    /\ LET oldReviewer == GetUser(loc[p].uid)
       IN IF oldReviewer = NoRow
          THEN Return(p, [NoResult EXCEPT !.op = "ReassignReviewer",
                             !.err = "UserNotFound", !.prID = loc[p].prID,
                             !.uid = loc[p].uid])
          ELSE Goto(p, "ReassignReviewer_GetActiveTeamMembers",
                    [loc[p] EXCEPT !.team = oldReviewer.team_name])
    /\ UNCHANGED db

\* Variant of excludeList without the current reviewers.
excludeList_NoReviewers(l) == {l.author}

\* Variant of excludeList without the author.
excludeList_NoAuthor(l) == l.revs

\* service.go:145-147  excludeList: the reviewers read by GetPR, and the author
excludeList(l) == l.revs \cup {l.author}

\* service.go:149-158  the candidates; when there is one the request calls
\* rng.Intn
ReassignReviewer_GetActiveTeamMembers(p) ==
    /\ At(p, "ReassignReviewer_GetActiveTeamMembers")
    /\ LET candidates == GetActiveTeamMembers(loc[p].team, excludeList(loc[p]))
       IN IF candidates = {}
          THEN Return(p, [NoResult EXCEPT !.op = "ReassignReviewer",
                             !.err = "NoCandidate", !.prID = loc[p].prID,
                             !.uid = loc[p].uid])
          ELSE Goto(p, "ReassignReviewer_Intn", [loc[p] EXCEPT !.pool = candidates])
    /\ UNCHANGED db

\* Variant of ReplaceReviewer without the DELETE.
ReplaceReviewer_KeepsOld(revs, oldReviewerID, newReviewerID) ==
    revs \cup (IF newReviewerID = None THEN {} ELSE {newReviewerID})

\* The pr_reviewers rows of prID after DELETE old, INSERT new (new = None: no insert)
ReplaceReviewer(revs, oldReviewerID, newReviewerID) ==
    (revs \ {oldReviewerID}) \cup (IF newReviewerID = None THEN {} ELSE {newReviewerID})

\* The INSERT hits the primary key (pull_request_id, user_id)
DuplicateReviewer(revs, oldReviewerID, newReviewerID) ==
    newReviewerID # None /\ newReviewerID \in revs \ {oldReviewerID}

\* repo.go:233-257  one transaction: DELETE the old row, INSERT the new one, commit
ReassignReviewer_ReplaceReviewer(p) ==
    /\ At(p, "ReassignReviewer_ReplaceReviewer")
    /\ LET prID == loc[p].prID
           newReviewer == CHOOSE u \in loc[p].picked : TRUE
       IN IF DuplicateReviewer(reviewers[prID], loc[p].uid, newReviewer)
          THEN \* unique violation: rolled back, the error is returned as is
               /\ Return(p, [NoResult EXCEPT !.op = "ReassignReviewer", !.err = Internal,
                                !.prID = prID, !.uid = loc[p].uid])
               /\ UNCHANGED db
          ELSE /\ reviewers' = [reviewers EXCEPT ![prID] =
                                  ReplaceReviewer(reviewers[prID], loc[p].uid, newReviewer)]
               /\ Goto(p, "ReassignReviewer_GetPR2", loc[p])
               /\ UNCHANGED <<teams, users, prs, now>>

\* service.go:164-165  the re-read of the PR
ReassignReviewer_GetPR2(p) ==
    /\ At(p, "ReassignReviewer_GetPR2")
    /\ Return(p, [NoResult EXCEPT !.op = "ReassignReviewer", !.prID = loc[p].prID,
                     !.uid = loc[p].uid,
                     !.err = IF GetPR(loc[p].prID) = NoRow THEN Internal ELSE OK,
                     !.pr = GetPR(loc[p].prID),
                     !.replacedBy = CHOOSE u \in loc[p].picked : TRUE])
    /\ UNCHANGED db

----------------------------------------------------------------------------
(* POST /team/deactivate: Service.DeactivateTeam and the transaction of    *)
(* Repository.DeactivateTeamAndReassignPRs.                                *)

\* service.go:184-190  TeamExists pre-check
DeactivateTeam_TeamExists(p, teamName) ==
    /\ Begin(p)
    /\ IF ~TeamExists(teamName)
       THEN Return(p, [NoResult EXCEPT !.op = "DeactivateTeam", !.err = "TeamNotFound",
                                       !.teamName = teamName])
       ELSE Goto(p, "DeactivateTeam_deactivateTeamUsers",
                 [NoLoc EXCEPT !.teamName = teamName])
    /\ UNCHANGED db

\* Variant of TxUsers in which the UPDATE of the members is lost.
TxUsers_None(deactivated) == users

\* The users table as the transaction sees it: the committed rows, with its own
\* uncommitted UPDATE applied.
TxUsers(deactivated) ==
    [u \in UserIds |-> IF u \in deactivated THEN [users[u] EXCEPT !.is_active = FALSE]
                                           ELSE users[u]]

\* Variant of deactivateTeamUsers whose UPDATE has no `AND is_active=true`.
deactivateTeamUsers_AllMembers(teamName) ==
    {u \in UserIds : users[u] # NoRow /\ users[u].team_name = teamName}

\* repo.go:453-471  the user_id the UPDATE returns:
\* UPDATE users SET is_active=false WHERE team_name=$1 AND is_active=true RETURNING user_id
deactivateTeamUsers(teamName) == ActiveOfTeam(users, teamName)

\* repo.go:343-357  Begin; the UPDATE; no row updated: Commit, and empty lists
DeactivateTeam_deactivateTeamUsers(p) ==
    /\ At(p, "DeactivateTeam_deactivateTeamUsers")
    /\ LET deactivated == deactivateTeamUsers(loc[p].teamName)
       IN /\ \A u \in deactivated : ~Locked(u, p)
          /\ IF deactivated = {}
             THEN Return(p, [NoResult EXCEPT !.op = "DeactivateTeam", !.err = OK,
                                             !.teamName = loc[p].teamName])
             ELSE Goto(p, "DeactivateTeam_getAffectedPRs",
                       [loc[p] EXCEPT !.deactivated = deactivated])
    /\ UNCHANGED db

\* Variant of getAffectedPRs that finds only the PRs of a deactivated author.
getAffectedPRs_OfAuthors(deactivated) ==
    {[prID |-> id, authorID |-> prs[id].author, reviewers |-> reviewers[id] \cap deactivated] :
        id \in {i \in PRIds : /\ prs[i] # NoRow
                              /\ prs[i].status = "OPEN"
                              /\ prs[i].author \in deactivated
                              /\ reviewers[i] \cap deactivated # {}}}

\* repo.go:473-499  the OPEN PRs with a reviewer among the deactivated users; of
\* each PR the query returns only the reviewers that are among them
getAffectedPRs(deactivated) ==
    {[prID |-> id, authorID |-> prs[id].author, reviewers |-> reviewers[id] \cap deactivated] :
        id \in {i \in PRIds : /\ prs[i] # NoRow
                              /\ prs[i].status = "OPEN"
                              /\ reviewers[i] \cap deactivated # {}}}

DeactivateTeam_getAffectedPRs(p) ==
    /\ At(p, "DeactivateTeam_getAffectedPRs")
    /\ Goto(p, "DeactivateTeam_getActiveUsersByTeam",
            [loc[p] EXCEPT !.affected = getAffectedPRs(loc[p].deactivated)])
    /\ UNCHANGED db

\* Variant of getActiveUsersByTeam that reads the users as they were before the
\* UPDATE of the transaction.
getActiveUsersByTeam_BeforeUpdate(deactivated) ==
    [t \in TeamNames |-> ActiveOfTeam(users, t)]

\* repo.go:501-518  SELECT user_id, team_name FROM users WHERE is_active=true
getActiveUsersByTeam(deactivated) ==
    [t \in TeamNames |-> ActiveOfTeam(TxUsers(deactivated), t)]

\* repo.go:520-531  SELECT team_name FROM users WHERE user_id=$1, for each
\* deactivated user (rows this transaction has locked)
getUserTeams(deactivated) == [u \in deactivated |-> users[u].team_name]

\* Variant of filtered that takes the candidates of every team.
filtered_AnyTeam(l, pr, oldReviewer) ==
    LET exclude == {pr.authorID} \cup pr.reviewers
    IN {c \in UNION {l.candidates[t] : t \in TeamNames} : c \notin exclude}

\* repo.go:545-559  the candidates of one stale reviewer of one affected PR
filtered(l, pr, oldReviewer) ==
    LET exclude == {pr.authorID} \cup pr.reviewers
    IN {c \in l.candidates[l.userTeams[oldReviewer]] : c \notin exclude}

\* The (PR, stale reviewer) pairs the two loops of repo.go:543-544 visit
Swaps(l) == {<<pr, old>> : pr \in l.affected, old \in UNION {q.reviewers : q \in l.affected}}
               \cap {sw \in l.affected \X UserIds : sw[2] \in sw[1].reviewers}

\* repo.go:561-564  every way rng.Intn can draw the replacements: a replacement
\* per swap, None where the swap has no candidate
Draws(l) ==
    LET range == UNION {filtered(l, sw[1], sw[2]) : sw \in Swaps(l)} \cup {None}
    IN {f \in [Swaps(l) -> range] :
          \A sw \in Swaps(l) :
             IF filtered(l, sw[1], sw[2]) = {} THEN f[sw] = None
             ELSE f[sw] \in filtered(l, sw[1], sw[2])}

\* repo.go:365-373, 561-564  the snapshot of the active users and the teams of
\* the deactivated ones; rng.Intn is called for the swaps that have a candidate
DeactivateTeam_getActiveUsersByTeam(p) ==
    /\ At(p, "DeactivateTeam_getActiveUsersByTeam")
    /\ LET l == [loc[p] EXCEPT !.candidates = getActiveUsersByTeam(loc[p].deactivated),
                               !.userTeams = getUserTeams(loc[p].deactivated)]
       IN IF \E sw \in Swaps(l) : filtered(l, sw[1], sw[2]) # {}
          THEN Goto(p, "DeactivateTeam_Intn", l)
          ELSE Goto(p, "DeactivateTeam_reassignReviewers",
                    [l EXCEPT !.draw = CHOOSE draw \in Draws(l) : TRUE])
    /\ UNCHANGED db

\* service.go:158, repo.go:563  rng.Intn returns: the replacement of a
\* ReassignReviewer, or the replacements of the swaps of a cascade. A panic
\* inside the transaction of the cascade runs its deferred Rollback.
Intn(p) ==
    /\ pc[p] \in {"ReassignReviewer_Intn", "DeactivateTeam_Intn"}
    /\ UNCHANGED <<ops, serial>>
    /\ IF pc[p] = "ReassignReviewer_Intn"
       THEN \E panic \in Panics(p), newReviewer \in loc[p].pool :
               IF panic
               THEN Return(p, [NoResult EXCEPT !.op = "ReassignReviewer", !.err = Internal,
                                               !.prID = loc[p].prID, !.uid = loc[p].uid])
               ELSE Goto(p, "ReassignReviewer_ReplaceReviewer",
                         [loc[p] EXCEPT !.picked = {newReviewer}])
       ELSE \E panic \in Panics(p), draw \in Draws(loc[p]) :
               IF panic
               THEN Return(p, [NoResult EXCEPT !.op = "DeactivateTeam", !.err = Internal,
                                               !.teamName = loc[p].teamName])
               ELSE Goto(p, "DeactivateTeam_reassignReviewers",
                         [loc[p] EXCEPT !.draw = draw])
    /\ UNCHANGED db

\* Variant of SwapsCollide in which a swap without candidate is an error too.
SwapsCollide_OrNoCandidate(l, draw) ==
    \E sw \in {<<pr, old>> \in l.affected \X UserIds : old \in pr.reviewers} :
       \/ draw[sw] = None
       \/ draw[sw] \in reviewers[sw[1].prID]

\* One of the INSERTs of repo.go:573-580 hits the primary key of pr_reviewers
SwapsCollide(l, draw) ==
    \E sw \in Swaps(l) :
       /\ draw[sw] # None
       /\ \/ draw[sw] \in reviewers[sw[1].prID]
          \/ \E other \in Swaps(l) :
                other # sw /\ other[1] = sw[1] /\ draw[other] = draw[sw]

\* Variant of reassignReviewers that deletes every reviewer of an affected PR.
reassignReviewers_DropsAll(l, draw) ==
    [id \in PRIds |->
        IF \E pr \in l.affected : pr.prID = id
        THEN {draw[sw] : sw \in {x \in DOMAIN draw : x[1].prID = id /\ draw[x] # None}}
        ELSE reviewers[id]]

\* pr_reviewers after every DELETE and INSERT of repo.go:566-580
reassignReviewers(l, draw) ==
    [id \in PRIds |->
        LET mine == {sw \in Swaps(l) : sw[1].prID = id}
        IN (reviewers[id] \ {sw[2] : sw \in mine})
              \cup {draw[sw] : sw \in {x \in mine : draw[x] # None}}]

\* Variant of Reassignments that records only the swaps with a replacement.
Reassignments_OnlyReplaced(l, draw) ==
    {[pr_id |-> sw[1].prID, old |-> sw[2], new |-> draw[sw]] :
        sw \in {x \in DOMAIN draw : draw[x] # None}}

\* repo.go:582-586  the records returned
Reassignments(l, draw) ==
    {[pr_id |-> sw[1].prID, old |-> sw[2], new |-> draw[sw]] : sw \in Swaps(l)}

\* Variant of Rollback that leaves the UPDATE of the members in place.
Rollback_KeepsDeactivation(l) ==
    /\ users' = TxUsers(l.deactivated)
    /\ UNCHANGED <<teams, prs, reviewers, now>>

\* repo.go:347  the deferred tx.Rollback: the UPDATE of the members and every
\* DELETE and INSERT the transaction made are undone
Rollback(l) == UNCHANGED db

\* repo.go:350-377  a statement of the transaction fails, or the request is
\* cancelled: the error is returned and the deferred Rollback runs
DeactivateTeam_Rollback(p) ==
    /\ pc[p] \in {"DeactivateTeam_deactivateTeamUsers", "DeactivateTeam_getAffectedPRs",
                  "DeactivateTeam_getActiveUsersByTeam", "DeactivateTeam_reassignReviewers"}
    /\ UNCHANGED <<ops, serial>>
    /\ Return(p, [NoResult EXCEPT !.op = "DeactivateTeam", !.err = Unavailable,
                                  !.teamName = loc[p].teamName])
    /\ Rollback(loc[p])

\* repo.go:374-386  the swaps of every affected PR, then Commit
DeactivateTeam_reassignReviewers(p) ==
    /\ At(p, "DeactivateTeam_reassignReviewers")
    /\ LET draw == loc[p].draw
       IN IF SwapsCollide(loc[p], draw)
          THEN \* unique violation: the deferred Rollback undoes the transaction
               /\ Return(p, [NoResult EXCEPT !.op = "DeactivateTeam", !.err = Internal,
                                             !.teamName = loc[p].teamName])
               /\ Rollback(loc[p])
          ELSE /\ users' = TxUsers(loc[p].deactivated)
               /\ reviewers' = reassignReviewers(loc[p], draw)
               /\ Return(p, [NoResult EXCEPT !.op = "DeactivateTeam", !.err = OK,
                                !.teamName = loc[p].teamName,
                                !.deactivated = loc[p].deactivated,
                                !.reassignments = Reassignments(loc[p], draw)])
               /\ UNCHANGED <<teams, prs, now>>

----------------------------------------------------------------------------
(* GET /team/get, GET /users/getReview, GET /stats: the read-only requests. *)

\* repo.go:58-64  TeamExists; no such team is ErrNotFound, answered TeamNotFound
GetTeam_TeamExists(p, teamName) ==
    /\ Begin(p)
    /\ IF ~TeamExists(teamName)
       THEN Return(p, [NoResult EXCEPT !.op = "GetTeam", !.err = "TeamNotFound",
                                       !.teamName = teamName])
       ELSE Goto(p, "GetTeam_GetTeam", [NoLoc EXCEPT !.teamName = teamName])
    /\ UNCHANGED db

\* SELECT user_id, username, is_active FROM users WHERE team_name=$1
TeamMembers(teamName) ==
    {[user_id |-> u, username |-> users[u].username, is_active |-> users[u].is_active] :
        u \in {v \in UserIds : users[v] # NoRow /\ users[v].team_name = teamName}}

\* repo.go:66-83  the members of the team
GetTeam_GetTeam(p) ==
    /\ At(p, "GetTeam_GetTeam")
    /\ Return(p, [NoResult EXCEPT !.op = "GetTeam", !.err = OK,
                     !.teamName = loc[p].teamName,
                     !.team = [team_name |-> loc[p].teamName,
                               members |-> TeamMembers(loc[p].teamName)]])
    /\ UNCHANGED db

\* Variant of GetUserReviews that lists the OPEN PRs only.
GetUserReviews_OpenOnly(uid) ==
    {[id |-> i, name |-> prs[i].name, author |-> prs[i].author, status |-> prs[i].status] :
        i \in {j \in PRIds : prs[j] # NoRow /\ prs[j].status = "OPEN" /\ uid \in reviewers[j]}}

\* repo.go:259-282  the PRs joined with the pr_reviewers rows of the user
GetUserReviews(uid) ==
    {[id |-> i, name |-> prs[i].name, author |-> prs[i].author, status |-> prs[i].status] :
        i \in {j \in PRIds : prs[j] # NoRow /\ uid \in reviewers[j]}}

\* service.go:168-177  one query; an unknown user has no rows
GetUserReviews_GetUserReviews(p, uid) ==
    /\ Begin(p)
    /\ Return(p, [NoResult EXCEPT !.op = "GetUserReviews", !.err = OK, !.uid = uid,
                                  !.reviews = GetUserReviews(uid)])
    /\ UNCHANGED db

\* repo.go:392-401  the five COUNT(*) queries, in their order
StatsQueries == 5

QueryRow(i) ==
    CASE i = 1 -> Cardinality(teams)
      [] i = 2 -> Cardinality({u \in UserIds : users[u] # NoRow})
      [] i = 3 -> Cardinality({j \in PRIds : prs[j] # NoRow})
      [] i = 4 -> Cardinality({j \in PRIds : prs[j] # NoRow /\ prs[j].status = "OPEN"})
      [] OTHER -> Cardinality({j \in PRIds : prs[j] # NoRow /\ prs[j].status = "MERGED"})

\* repo.go:403-407  the queries run one after the other, each on its own
GetStats_QueryRow(p) ==
    /\ IF Idle(p)
       THEN /\ Begin(p)
            /\ Goto(p, "GetStats_QueryRow", [NoLoc EXCEPT !.counts = <<QueryRow(1)>>])
       ELSE /\ At(p, "GetStats_QueryRow")
            /\ LET counts == Append(loc[p].counts, QueryRow(Len(loc[p].counts) + 1))
               IN Goto(p, IF Len(counts) = StatsQueries THEN "GetStats_AssignmentsByUser"
                                                        ELSE "GetStats_QueryRow",
                       [loc[p] EXCEPT !.counts = counts])
    /\ UNCHANGED db

\* repo.go:409-414  users LEFT JOIN pr_reviewers, grouped by user
AssignmentsByUser ==
    {[user_id |-> u, username |-> users[u].username,
      assignments |-> Cardinality({j \in PRIds : u \in reviewers[j]})] :
        u \in {v \in UserIds : users[v] # NoRow}}

\* repo.go:409-427
GetStats_AssignmentsByUser(p) ==
    /\ At(p, "GetStats_AssignmentsByUser")
    /\ Goto(p, "GetStats_ReviewersByPR", [loc[p] EXCEPT !.byUser = AssignmentsByUser])
    /\ UNCHANGED db

\* repo.go:429-434  pull_requests LEFT JOIN pr_reviewers, grouped by PR
ReviewersByPR ==
    {[pr_id |-> j, name |-> prs[j].name, reviewers |-> Cardinality(reviewers[j])] :
        j \in {i \in PRIds : prs[i] # NoRow}}

\* repo.go:429-449  the last query, and the Stats returned
GetStats_ReviewersByPR(p) ==
    /\ At(p, "GetStats_ReviewersByPR")
    /\ Return(p, [NoResult EXCEPT !.op = "GetStats", !.err = OK,
                     !.stats = [total_teams |-> loc[p].counts[1],
                                total_users |-> loc[p].counts[2],
                                total_prs |-> loc[p].counts[3],
                                open_prs |-> loc[p].counts[4],
                                merged_prs |-> loc[p].counts[5],
                                assignments_by_user |-> loc[p].byUser,
                                reviewers_by_pr |-> ReviewersByPR]])
    /\ UNCHANGED db

----------------------------------------------------------------------------
(* Storage failures.                                                       *)

\* The operation a label belongs to.
OpOf(label) ==
    CASE label = "CreateTeam_CreateTeam" -> "CreateTeam"
      [] label = "SetUserActive_GetUser" -> "SetUserActive"
      [] label \in {"CreatePullRequest_GetUser", "CreatePullRequest_GetActiveTeamMembers",
                    "CreatePullRequest_Shuffle",
                    "CreatePullRequest_CreatePR", "CreatePullRequest_GetPR"}
            -> "CreatePullRequest"
      [] label \in {"MergePullRequest_MergePR", "MergePullRequest_GetPR2"}
            -> "MergePullRequest"
      [] label \in {"ReassignReviewer_GetUser", "ReassignReviewer_GetActiveTeamMembers",
                    "ReassignReviewer_Intn",
                    "ReassignReviewer_ReplaceReviewer", "ReassignReviewer_GetPR2"}
            -> "ReassignReviewer"
      [] label \in {"DeactivateTeam_deactivateTeamUsers", "DeactivateTeam_getAffectedPRs",
                    "DeactivateTeam_getActiveUsersByTeam", "DeactivateTeam_Intn",
                    "DeactivateTeam_reassignReviewers"}
            -> "DeactivateTeam"
      [] label = "GetTeam_GetTeam" -> "GetTeam"
      [] label \in {"GetStats_QueryRow", "GetStats_AssignmentsByUser",
                    "GetStats_ReviewersByPR"} -> "GetStats"
      [] OTHER -> None

\* A repository call of a request in flight fails in the storage, or the request
\* is cancelled: the statement, or the transaction it is part of, is not
\* applied, and the service returns the error at once (every `if err != nil`
\* of service.go and repo.go). What the request committed before stays.
StorageFailure(p) ==
    /\ pc[p] \in {"CreateTeam_CreateTeam", "SetUserActive_GetUser",
                  "CreatePullRequest_GetUser", "CreatePullRequest_GetActiveTeamMembers",
                  "CreatePullRequest_CreatePR", "CreatePullRequest_GetPR",
                  "MergePullRequest_MergePR", "MergePullRequest_GetPR2",
                  "ReassignReviewer_GetUser", "ReassignReviewer_GetActiveTeamMembers",
                  "ReassignReviewer_ReplaceReviewer", "ReassignReviewer_GetPR2",
                  "GetTeam_GetTeam", "GetStats_QueryRow", "GetStats_AssignmentsByUser",
                  "GetStats_ReviewersByPR"}
    /\ UNCHANGED <<ops, serial>>
    /\ Return(p, [NoResult EXCEPT !.op = OpOf(pc[p]), !.err = Unavailable,
                                  !.prID = loc[p].prID, !.uid = loc[p].uid,
                                  !.teamName = loc[p].teamName])
    /\ UNCHANGED db

----------------------------------------------------------------------------
(* The requests the clients send.                                          *)

Member(uid, name, active) == [user_id |-> uid, username |-> name, is_active |-> active]

\* Bodies of POST /team/add: an existing name; a new team that moves one user of
\* each seeded team; a new team that moves a user as inactive and adds a new one.
TeamInputs ==
    {[team_name |-> "t1", members |-> {Member("u2", "x", TRUE)}],
     [team_name |-> "t3", members |-> {Member("u2", "x", TRUE), Member("u6", "x", TRUE)}],
     [team_name |-> "t3", members |-> {Member("u3", "x", FALSE), Member("u8", "x", TRUE)}]}

\* Bodies of POST /pullRequest/create. u9 is the id of no user, t9 the name of
\* no team.
PRBody(prID, prName, authorID) == [id |-> prID, name |-> prName, author |-> authorID]

CreateInputs ==
    {PRBody("p1", "a", "u1"), PRBody("p1", "b", "u6"), PRBody("p1", "a", "u9"),
     PRBody("p2", "b", "u1"), PRBody("p2", "a", "u6")}

SetActiveInputs == {"u2", "u5", "u9"}
ReviewerInputs == {"u2", "u3", "u9"}
DeactivateInputs == {"t1", "t3", "t9"}
GetTeamInputs == {"t1", "t9"}
GetReviewsInputs == {"u2", "u9"}

\* migrations/002_seed.up.sql, scaled down: team t1 of five users, the last of
\* them active or not, and team t2 of one user
SeedUsers(u5active) ==
    [u \in UserIds |->
        CASE u \in {"u1", "u2", "u3", "u4"} -> UserRow(u, "t1", TRUE)
          [] u = "u5" -> UserRow(u, "t1", u5active)
          [] u = "u6" -> UserRow(u, "t2", TRUE)
          [] OTHER -> NoRow]

InitDB ==
    /\ teams = {"t1", "t2"}
    /\ \E u5active \in BOOLEAN : users = SeedUsers(u5active)
    /\ prs = [i \in PRIds |-> NoRow]
    /\ reviewers = [i \in PRIds |-> {}]
    /\ now = 1

InitRequests ==
    /\ pc = [p \in Procs |-> "idle"]
    /\ loc = [p \in Procs |-> NoLoc]
    /\ result = [p \in Procs |-> NoResult]
    /\ ops = 0
    /\ before = NoBefore
    /\ raced = {}

Init == InitDB /\ InitRequests /\ serial = FALSE

InitSeq == InitDB /\ InitRequests /\ serial = TRUE

\* A database with a stale assignment: u5 is inactive, and u1 is the author of
\* the OPEN PR p1, whose reviewers are u2 alone (created while u2 was the only
\* other active member of t1) or u2 and u5 (u5 was deactivated by SetUserActive
\* after the creation).
StaleDB(revs) ==
    /\ teams = {"t1", "t2"}
    /\ users = SeedUsers(FALSE)
    /\ prs = [i \in PRIds |->
                IF i = "p1" THEN [name |-> "a", author |-> "u1", status |-> "OPEN",
                                  mergedAt |-> 0]
                ELSE NoRow]
    /\ reviewers = [i \in PRIds |-> IF i = "p1" THEN revs ELSE {}]
    /\ now = 1

InitStale ==
    /\ \E revs \in {{"u2"}, {"u2", "u5"}} : StaleDB(revs)
    /\ pc = [p \in Procs |-> "idle"]
    /\ loc = [p \in Procs |-> NoLoc]
    /\ result = [p \in Procs |-> NoResult]
    /\ ops = StaleOps
    /\ before = NoBefore
    /\ raced = {}
    /\ serial = FALSE

Next ==
    \/ \E p \in Procs, team \in TeamInputs : CreateTeam_TeamExists(p, team)
    \/ \E p \in Procs : CreateTeam_CreateTeam(p)
    \/ \E p \in Procs, uid \in SetActiveInputs, active \in BOOLEAN :
          SetUserActive_UpdateUserActiveStatus(p, uid, active)
    \/ \E p \in Procs : SetUserActive_GetUser(p)
    \/ \E p \in Procs, body \in CreateInputs :
          CreatePullRequest_PRExists(p, body.id, body.name, body.author)
    \/ \E p \in Procs : CreatePullRequest_GetUser(p)
    \/ \E p \in Procs : CreatePullRequest_GetActiveTeamMembers(p)
    \/ \E p \in Procs : Shuffle(p)
    \/ \E p \in Procs : CreatePullRequest_CreatePR(p)
    \/ \E p \in Procs : CreatePullRequest_GetPR(p)
    \/ \E p \in Procs, prID \in PRIds : MergePullRequest_GetPR(p, prID)
    \/ \E p \in Procs : MergePullRequest_MergePR(p)
    \/ \E p \in Procs : MergePullRequest_GetPR2(p)
    \/ \E p \in Procs, prID \in PRIds, old \in ReviewerInputs :
          ReassignReviewer_GetPR(p, prID, old)
    \/ \E p \in Procs : ReassignReviewer_GetUser(p)
    \/ \E p \in Procs : ReassignReviewer_GetActiveTeamMembers(p)
    \/ \E p \in Procs : Intn(p)
    \/ \E p \in Procs : ReassignReviewer_ReplaceReviewer(p)
    \/ \E p \in Procs : ReassignReviewer_GetPR2(p)
    \/ \E p \in Procs, teamName \in DeactivateInputs : DeactivateTeam_TeamExists(p, teamName)
    \/ \E p \in Procs : DeactivateTeam_deactivateTeamUsers(p)
    \/ \E p \in Procs : DeactivateTeam_getAffectedPRs(p)
    \/ \E p \in Procs : DeactivateTeam_getActiveUsersByTeam(p)
    \/ \E p \in Procs : DeactivateTeam_reassignReviewers(p)
    \/ \E p \in Procs : DeactivateTeam_Rollback(p)
    \/ \E p \in Procs, teamName \in GetTeamInputs : GetTeam_TeamExists(p, teamName)
    \/ \E p \in Procs : GetTeam_GetTeam(p)
    \/ \E p \in Procs, uid \in GetReviewsInputs : GetUserReviews_GetUserReviews(p, uid)
    \/ \E p \in Procs : GetStats_QueryRow(p)
    \/ \E p \in Procs : GetStats_AssignmentsByUser(p)
    \/ \E p \in Procs : GetStats_ReviewersByPR(p)
    \/ \E p \in Procs : StorageFailure(p)

\* Requests that overlap.
Spec == Init /\ [][Next]_vars

\* Requests sent one at a time, each after the previous one returned.
SpecSeq == InitSeq /\ [][Next]_vars

\* Requests that overlap, on a database with a stale assignment.
SpecStale == InitStale /\ [][Next]_vars

----------------------------------------------------------------------------
(* Properties.                                                             *)

Min(a, b) == IF a <= b THEN a ELSE b

InFlight(p, op) ==
    CASE op = "ReassignReviewer" ->
            pc[p] \in {"ReassignReviewer_GetUser", "ReassignReviewer_GetActiveTeamMembers",
                       "ReassignReviewer_Intn",
                       "ReassignReviewer_ReplaceReviewer", "ReassignReviewer_GetPR2"}
      [] op = "CreatePullRequest" ->
            pc[p] \in {"CreatePullRequest_GetUser", "CreatePullRequest_GetActiveTeamMembers",
                       "CreatePullRequest_Shuffle",
                       "CreatePullRequest_CreatePR", "CreatePullRequest_GetPR"}
      [] op = "MergePullRequest" ->
            pc[p] \in {"MergePullRequest_MergePR", "MergePullRequest_GetPR2"}
      [] op = "DeactivateTeam" ->
            pc[p] = "DeactivateTeam_deactivateTeamUsers" \/ InDeactivateTx(p)
      [] OTHER -> FALSE

\* This step is a step of the request on slot p: its arrival, or one of its
\* repository calls.
Step(p) ==
    \/ ops' = ops + 1 /\ p = Beginner
    \/ pc[p] # "idle" /\ <<pc[p], loc[p]>> # <<pc'[p], loc'[p]>>

\* The operation of the request that takes the step Step(p).
StepOp(p) ==
    IF pc[p] # "idle" THEN OpOf(pc[p])
    ELSE IF pc'[p] # "idle" THEN OpOf(pc'[p])
    ELSE result'[p].op

\* The repository call of this step of the request on slot p fails in the
\* storage: the request returns the error of the storage.
StorageFails(p) ==
    /\ pc[p] # "idle"
    /\ pc'[p] = "idle"
    /\ result'[p].err = Unavailable

\* The user id a request names: what it was called with, or what it returned for.
Arg(p) == IF pc[p] = "idle" THEN result[p].uid ELSE loc[p].uid

\* This step is the arrival of a request op about the PR id, on slot p.
Called(p, op, id) ==
    /\ ops' = ops + 1
    /\ p = Beginner
    /\ \/ pc'[p] = "idle" /\ result'[p].op = op /\ result'[p].prID = id
       \/ InFlight(p, op)' /\ loc'[p].prID = id

\* The pool of CreatePullRequest: the active members of the author's team
\* other than the author.
Pool(authorID) == ActiveOfTeam(users, users[authorID].team_name) \ {authorID}

\* C1: with requests served one at a time, a successful CreatePullRequest has
\* stored an OPEN PR of the given author whose reviewers are min(2, |pool|)
\* members of the pool (the active members of the author's team other than the
\* author), and it returns an OPEN PR with at most 2 reviewers, none the author.
C1_CreateAssignsFromPool ==
    \A p \in Procs :
       /\ pc[p] = "CreatePullRequest_GetPR" =>
             LET id == loc[p].prID
                 a  == loc[p].uid
             IN /\ prs[id] # NoRow
                /\ prs[id].status = "OPEN"
                /\ prs[id].author = a
                /\ reviewers[id] \subseteq Pool(a)
                /\ Cardinality(reviewers[id]) = Min(candidatesCount, Cardinality(Pool(a)))
       /\ (result[p].op = "CreatePullRequest" /\ result[p].err = OK) =>
             /\ result[p].pr.status = "OPEN"
             /\ result[p].pr.author = result[p].uid
             /\ Cardinality(result[p].pr.reviewers) <= candidatesCount
             /\ result[p].uid \notin result[p].pr.reviewers

\* C1 witness: one creation returned a PR without reviewers (empty pool) and
\* another has just stored 2 reviewers out of a pool of more than 2.
C1_Witness ==
    \E p, q \in Procs :
       /\ result[q].op = "CreatePullRequest" /\ result[q].err = OK
       /\ result[q].pr.reviewers = {}
       /\ pc[p] = "CreatePullRequest_GetPR"
       /\ Cardinality(reviewers[loc[p].prID]) = 2
       /\ Cardinality(Pool(loc[p].uid)) > 2

\* C2: with requests served one at a time, no PR ever has more than 2 reviewers,
\* and no step of ReassignReviewer or DeactivateTeam makes a reviewer set larger.
C2_ReviewerSetNeverGrows ==
    [][\A id \in PRIds :
          /\ Cardinality(reviewers'[id]) <= 2
          /\ (\E p \in Procs : InFlight(p, "ReassignReviewer") \/ InDeactivateTx(p))
                => Cardinality(reviewers'[id]) <= Cardinality(reviewers[id])]_vars

\* C2 witness: a reassignment succeeded and a cascade that swapped reviewers
\* committed.
C2_Witness ==
    \E p, q \in Procs :
       /\ result[p].op = "ReassignReviewer" /\ result[p].err = OK
       /\ result[q].op = "DeactivateTeam" /\ result[q].err = OK
       /\ result[q].reassignments # {}

\* C3 (as claimed): while two ReassignReviewer requests for the same PR and the
\* same old reviewer overlap, the PR has at most 2 reviewers and no more than
\* it had when either request read it.
C3_ConcurrentReassignSwapsOne ==
    \A p, q \in Procs :
       (/\ p # q
        /\ InFlight(p, "ReassignReviewer")
        /\ InFlight(q, "ReassignReviewer")
        /\ loc[p].prID = loc[q].prID
        /\ loc[p].uid = loc[q].uid)
       => /\ Cardinality(reviewers[loc[p].prID]) <= 2
          /\ Cardinality(reviewers[loc[p].prID]) <= Cardinality(loc[p].revs)

\* C4: in every reachable state, requests overlapping or not, no PR has its
\* author among its reviewers.
C4_AuthorNeverReviewer ==
    \A id \in PRIds : prs[id] # NoRow => prs[id].author \notin reviewers[id]

\* C4 witness: a PR whose reviewer was replaced by ReassignReviewer, and whose
\* author is still an active member of the replaced reviewer's team.
C4_Witness ==
    \E p \in Procs :
       /\ result[p].op = "ReassignReviewer" /\ result[p].err = OK
       /\ result[p].replacedBy \in reviewers[result[p].prID]
       /\ users[prs[result[p].prID].author].is_active
       /\ users[prs[result[p].prID].author].team_name = users[result[p].uid].team_name

\* C5 (as claimed): no step changes the reviewer set of a PR that is MERGED.
C5_MergedReviewersFrozen ==
    [][\A id \in PRIds :
          (prs[id] # NoRow /\ prs[id].status = "MERGED") => reviewers'[id] = reviewers[id]]_vars

\* C6: a ReassignReviewer request that arrives when the PR is MERGED returns
\* PRMerged, whoever the old reviewer is, and writes nothing.
C6_ReassignOfMergedFails ==
    [][\A p \in Procs, id \in PRIds :
          (/\ Called(p, "ReassignReviewer", id)
           /\ prs[id] # NoRow
           /\ prs[id].status = "MERGED")
          => /\ pc'[p] = "idle"
             /\ result'[p].err = "PRMerged"
             /\ db' = db]_vars

\* C6 witness: PRMerged was returned for an old reviewer that is not assigned
\* to the MERGED PR, which still has its reviewers.
C6_Witness ==
    \E p \in Procs :
       /\ result[p].op = "ReassignReviewer" /\ result[p].err = "PRMerged"
       /\ result[p].uid \notin reviewers[result[p].prID]
       /\ reviewers[result[p].prID] # {}

\* C7: a PR row is never removed, its status is OPEN or MERGED, a MERGED PR
\* stays MERGED, and only the UPDATE of MergePullRequest changes a status.
C7_StatusMonotonic ==
    [][\A id \in PRIds :
          /\ prs'[id] # NoRow => prs'[id].status \in {"OPEN", "MERGED"}
          /\ prs[id] # NoRow =>
                /\ prs'[id] # NoRow
                /\ prs[id].status = "MERGED" => prs'[id].status = "MERGED"
                /\ prs'[id].status # prs[id].status =>
                      \E p \in Procs : /\ pc[p] = "MergePullRequest_MergePR"
                                       /\ pc'[p] = "MergePullRequest_GetPR2"
                                       /\ loc[p].prID = id]_vars

\* C7 witness: a PR is MERGED while a creation with its id and a reassignment of
\* one of its reviewers, both begun before the merge, have still to write.
C7_Witness ==
    \E id \in PRIds, p \in Procs :
       /\ prs[id] # NoRow
       /\ prs[id].status = "MERGED"
       /\ pc[p] \in {"CreatePullRequest_CreatePR", "ReassignReviewer_ReplaceReviewer"}
       /\ loc[p].prID = id

\* C8: with requests served one at a time, a MergePullRequest that arrives when
\* the PR is MERGED returns at once, without error, the PR as stored, and writes
\* nothing; two merges of a PR in a row return the same PR (status, reviewers,
\* mergedAt).
C8_MergeIdempotent ==
    /\ [](\A p, q \in Procs :
            (/\ result[p].op = "MergePullRequest" /\ result[p].err = OK
             /\ result[q].op = "MergePullRequest" /\ result[q].err = OK
             /\ result[p].prID = result[q].prID)
            => (result[p].pr = result[q].pr /\ result[p].pr.status = "MERGED"))
    /\ [][\A p \in Procs, id \in PRIds :
            (/\ Called(p, "MergePullRequest", id)
             /\ prs[id] # NoRow
             /\ prs[id].status = "MERGED")
            => /\ pc'[p] = "idle"
               /\ result'[p].err = OK
               /\ result'[p].pr = GetPR(id)
               /\ db' = db]_vars

\* C8 witness: the answers to two merges of the same PR, one after the other.
C8_Witness ==
    /\ result["w1"].op = "MergePullRequest" /\ result["w1"].err = OK
    /\ result["w2"].op = "MergePullRequest" /\ result["w2"].err = OK
    /\ result["w1"].prID = result["w2"].prID
    /\ result["w1"].pr.reviewers # {}

\* C9 (as claimed): a CreatePullRequest that fails because a PR with its id
\* exists returns PRExists, also when the PR was inserted after its pre-check.
C9_RacingCreateReturnsPRExists ==
    [][\A p \in Procs :
          (/\ pc[p] = "CreatePullRequest_CreatePR"
           /\ Step(p)
           /\ ~StorageFails(p)
           /\ prs[loc[p].prID] # NoRow)
          => /\ pc'[p] = "idle"
             /\ result'[p].err = "PRExists"]_vars

\* C10: a CreatePullRequest that arrives when a PR with its id exists returns
\* PRExists and writes nothing.
C10_DuplicateCreateFails ==
    [][\A p \in Procs, id \in PRIds :
          (Called(p, "CreatePullRequest", id) /\ prs[id] # NoRow)
          => /\ pc'[p] = "idle"
             /\ result'[p].err = "PRExists"
             /\ db' = db]_vars

\* C10 witness: PRExists was returned to a request naming another author than
\* the author of the stored PR.
C10_Witness ==
    \E p \in Procs :
       /\ result[p].op = "CreatePullRequest" /\ result[p].err = "PRExists"
       /\ prs[result[p].prID] # NoRow
       /\ prs[result[p].prID].author # result[p].uid

\* C11: with requests served one at a time, a CreatePullRequest with a fresh id
\* writes nothing before it has read its author, and when the read answers and
\* the author id is the id of no user it returns AuthorNotFound and leaves every table as it was:
\* no PR row and no reviewer row of that id.
C11_UnknownAuthorFails ==
    [][\A p \in Procs :
          /\ \A id \in PRIds :
                (Called(p, "CreatePullRequest", id) /\ prs[id] = NoRow)
                => (pc'[p] = "CreatePullRequest_GetUser" /\ db' = db)
          /\ (/\ pc[p] = "CreatePullRequest_GetUser"
              /\ pc'[p] # pc[p]
              /\ ~StorageFails(p)
              /\ users[loc[p].uid] = NoRow)
             => /\ prs[loc[p].prID] = NoRow
                /\ pc'[p] = "idle"
                /\ result'[p].op = "CreatePullRequest"
                /\ result'[p].err = "AuthorNotFound"
                /\ db' = db
                /\ prs'[loc[p].prID] = NoRow
                /\ reviewers'[loc[p].prID] = {}]_vars

\* C11 witness: AuthorNotFound was returned for an id that has no PR row, while
\* another PR is stored.
C11_Witness ==
    \E p \in Procs :
       /\ result[p].op = "CreatePullRequest" /\ result[p].err = "AuthorNotFound"
       /\ users[result[p].uid] = NoRow
       /\ prs[result[p].prID] = NoRow
       /\ reviewers[result[p].prID] = {}
       /\ \E other \in PRIds : prs[other] # NoRow

C14_NotAssignedFails ==
    [][\A p \in Procs, id \in PRIds :
          (/\ Called(p, "ReassignReviewer", id)
           /\ prs[id] # NoRow
           /\ prs[id].status = "OPEN"
           /\ users[Arg(p)'] # NoRow
           /\ Arg(p)' \notin reviewers[id])
          => /\ pc'[p] = "idle"
             /\ result'[p].err = "NotAssigned"
             /\ db' = db]_vars

\* C14 witness: NotAssigned was returned for an existing user and an OPEN PR
\* that has other reviewers.
C14_Witness ==
    \E p \in Procs :
       /\ result[p].op = "ReassignReviewer" /\ result[p].err = "NotAssigned"
       /\ users[result[p].uid] # NoRow
       /\ prs[result[p].prID].status = "OPEN"
       /\ result[p].uid \notin reviewers[result[p].prID]
       /\ reviewers[result[p].prID] # {}

\* C15 (as claimed): a ReassignReviewer that arrives when the PR is OPEN and the
\* old reviewer id is the id of no user does not return any error but
\* UserNotFound.
C15_UnknownReviewerFails ==
    [][\A p \in Procs, id \in PRIds :
          (/\ Called(p, "ReassignReviewer", id)
           /\ prs[id] # NoRow
           /\ prs[id].status = "OPEN"
           /\ users[Arg(p)'] = NoRow
           /\ pc'[p] = "idle")
          => result'[p].err = "UserNotFound"]_vars

\* C16: a MergePullRequest or a ReassignReviewer that arrives when no PR has
\* its id returns PRNotFound at once and writes nothing, requests overlapping
\* or not.
C16_UnknownPRFails ==
    [][\A p \in Procs, id \in PRIds :
          (/\ Called(p, "MergePullRequest", id) \/ Called(p, "ReassignReviewer", id)
           /\ prs[id] = NoRow)
          => /\ pc'[p] = "idle"
             /\ result'[p].err = "PRNotFound"
             /\ db' = db]_vars

\* C16 witness: a merge and a reassignment were both answered PRNotFound for an
\* id that has no PR, while another PR is stored.
C16_Witness ==
    \E p, q \in Procs :
       /\ result[p].op = "MergePullRequest" /\ result[p].err = "PRNotFound"
       /\ result[q].op = "ReassignReviewer" /\ result[q].err = "PRNotFound"
       /\ prs[result[p].prID] = NoRow
       /\ prs[result[q].prID] = NoRow
       /\ \E other \in PRIds : prs[other] # NoRow

\* C17 (as claimed): every reviewer row a step inserts names a user who is, as
\* the inserting transaction sees the users table, an active member of the team
\* of the PR's author.
C17_ReviewerFromAuthorsTeam ==
    [][\A id \in PRIds :
          \A u \in reviewers'[id] \ reviewers[id] :
             u \in ActiveOfTeam(users', users'[prs'[id].author].team_name)]_vars

\* C18: no step of a SetUserActive, CreateTeam, MergePullRequest, GetTeam,
\* GetUserReviews or GetStats request changes the reviewer set of any PR; a
\* reviewer set changes only in the write of a CreatePullRequest, of a
\* ReassignReviewer or of a DeactivateTeam.
C18_NoSilentReassignment ==
    [][/\ \A p \in Procs :
            (Step(p) /\ StepOp(p) \in {"SetUserActive", "CreateTeam", "MergePullRequest",
                                       "GetTeam", "GetUserReviews", "GetStats"})
            => reviewers' = reviewers
       /\ reviewers' # reviewers
            => \E p \in Procs :
                  /\ pc[p] \in {"CreatePullRequest_CreatePR", "ReassignReviewer_ReplaceReviewer",
                                "DeactivateTeam_reassignReviewers"}
                  /\ pc'[p] # pc[p]]_vars

\* C18 witness: a user deactivated through SetUserActive is still a reviewer of
\* an OPEN PR after a later read-only request or merge was answered.
C18_Witness ==
    \E p, q \in Procs :
       /\ result[p].op = "SetUserActive" /\ result[p].err = OK
       /\ ~users[result[p].uid].is_active
       /\ \E id \in PRIds : result[p].uid \in reviewers[id]
       /\ result[q].op \in {"GetTeam", "GetUserReviews", "GetStats", "MergePullRequest"}
       /\ result[q].err = OK

\* C19: no step of a DeactivateTeam request other than its commit changes the
\* active flag of a user or a reviewer row: when the request fails or is
\* interrupted after the deactivation of the members and before the commit,
\* the users and the reviewer rows are what they were.
C19_CascadeAtomic ==
    [][\A p \in Procs :
          (/\ Step(p)
           /\ StepOp(p) = "DeactivateTeam"
           /\ ~(pc'[p] = "idle" /\ result'[p].err = OK))
          => (users' = users /\ reviewers' = reviewers)]_vars

\* C19 witness: a DeactivateTeam returned an error; the members of the team it
\* had deactivated in its transaction are active, and one of them is still a
\* reviewer of an OPEN PR.
C19_Witness ==
    \E p \in Procs, id \in PRIds :
       /\ result[p].op = "DeactivateTeam" /\ result[p].err \in {Internal, Unavailable}
       /\ prs[id] # NoRow /\ prs[id].status = "OPEN"
       /\ reviewers[id] \cap ActiveOfTeam(users, result[p].teamName) # {}

\* C20: with requests served one at a time, a DeactivateTeam that succeeds
\* returns as deactivated exactly the users that were active members of the
\* team when it was called; after it every member of the team is inactive, and
\* nothing else of any user has changed: the users of the other teams keep
\* their active flag.
C20_DeactivatesExactlyActiveMembers ==
    [][\A p \in Procs :
          (/\ Step(p)
           /\ StepOp(p) = "DeactivateTeam"
           /\ pc'[p] = "idle"
           /\ result'[p].err = OK)
          => LET team == result'[p].teamName
             IN /\ result'[p].deactivated = ActiveOfTeam(users, team)
                /\ ActiveOfTeam(users', team) = {}
                /\ \A u \in UserIds :
                      IF u \in ActiveOfTeam(users, team)
                      THEN users'[u] = [users[u] EXCEPT !.is_active = FALSE]
                      ELSE users'[u] = users[u]]_vars

\* C20 witness: a DeactivateTeam returned its deactivated users; the team has a
\* member who was inactive before and is not among them, and a user of another
\* team is still active.
C20_Witness ==
    \E p \in Procs, u, v \in UserIds :
       /\ result[p].op = "DeactivateTeam" /\ result[p].err = OK
       /\ result[p].deactivated # {}
       /\ users[u] # NoRow /\ users[u].team_name = result[p].teamName
       /\ u \notin result[p].deactivated
       /\ ActiveOfTeam(users, result[p].teamName) = {}
       /\ users[v] # NoRow /\ users[v].team_name # result[p].teamName /\ users[v].is_active

\* C21: with requests served one at a time, a DeactivateTeam of a team that has
\* no active member, and whose statements do not fail in the storage, succeeds
\* at once with an empty deactivated list and an empty reassignment list, and
\* changes no table.
C21_DeactivateIdempotent ==
    [][\A p \in Procs :
          (/\ pc[p] = "DeactivateTeam_deactivateTeamUsers"
           /\ Step(p)
           /\ ActiveOfTeam(users, loc[p].teamName) = {}
           /\ ~(pc'[p] = "idle" /\ result'[p].err = Unavailable))
          => /\ pc'[p] = "idle"
             /\ result'[p].op = "DeactivateTeam"
             /\ result'[p].err = OK
             /\ result'[p].deactivated = {}
             /\ result'[p].reassignments = {}
             /\ db' = db
             /\ tables' = before]_vars

\* C21 witness: two DeactivateTeam of the same team in a row: the first
\* deactivated its members, who are inactive, the second returned empty lists.
C21_Witness ==
    \E p, q \in Procs :
       /\ result[p].op = "DeactivateTeam" /\ result[p].err = OK
       /\ result[p].deactivated # {}
       /\ result[q].op = "DeactivateTeam" /\ result[q].err = OK
       /\ result[q].teamName = result[p].teamName
       /\ result[q].deactivated = {} /\ result[q].reassignments = {}
       /\ \A u \in result[p].deactivated : ~users[u].is_active

\* C22: with requests served one at a time, when a DeactivateTeam commits, no
\* OPEN PR has one of the users it returns as deactivated among its reviewers.
C22_NoStaleReviewerAfterCascade ==
    [][\A p \in Procs :
          (/\ Step(p)
           /\ StepOp(p) = "DeactivateTeam"
           /\ pc'[p] = "idle"
           /\ result'[p].err = OK)
          => \A id \in PRIds :
                (prs'[id] # NoRow /\ prs'[id].status = "OPEN")
                => reviewers'[id] \cap result'[p].deactivated = {}]_vars

\* C22 witness: a DeactivateTeam committed that found deactivated users among
\* the reviewers of an OPEN PR, which is still OPEN.
C22_Witness ==
    \E p \in Procs :
       /\ result[p].op = "DeactivateTeam" /\ result[p].err = OK
       /\ \E r \in result[p].reassignments :
             /\ r.old \in result[p].deactivated
             /\ prs[r.pr_id].status = "OPEN"
             /\ r.old \notin reviewers[r.pr_id]

\* C23: with requests served one at a time, the swaps of a DeactivateTeam whose
\* statements do not fail in the storage always commit: the request succeeds,
\* every deactivated reviewer of an OPEN PR is removed, and a PR whose
\* deactivated reviewers have no candidate left (no active member of their team
\* outside the deactivated users, the PR's reviewers and its author) keeps only
\* its other reviewers, none at all when every reviewer was deactivated.
C23_CascadeDropsWithoutCandidate ==
    [][\A p \in Procs :
          (/\ pc[p] = "DeactivateTeam_reassignReviewers"
           /\ Step(p)
           /\ ~(pc'[p] = "idle" /\ result'[p].err = Unavailable))
          => LET D == ActiveOfTeam(users, loc[p].teamName)
                 Left(u, id) == (ActiveOfTeam(users, users[u].team_name) \ D)
                                   \ (reviewers[id] \cup {prs[id].author})
                 Open == {id \in PRIds : prs[id] # NoRow /\ prs[id].status = "OPEN"}
             IN /\ pc'[p] = "idle"
                /\ result'[p].err = OK
                /\ result'[p].deactivated = D
                /\ \A id \in Open : reviewers'[id] \cap D = {}
                /\ \A id \in Open :
                      (\A u \in reviewers[id] \cap D : Left(u, id) = {})
                      => reviewers'[id] = reviewers[id] \ D]_vars

\* C23 witness: team t1 is u1 (the author), u2, u3 and u4, all active; the PR
\* p1 of u1 had 2 reviewers; DeactivateTeam(t1) succeeded, returned the four
\* users as deactivated and two records without replacement, and p1 is OPEN
\* with 0 reviewers.
C23_Witness ==
    \E p \in Procs :
       /\ result[p].op = "DeactivateTeam" /\ result[p].err = OK
       /\ result[p].teamName = "t1"
       /\ result[p].deactivated = {"u1", "u2", "u3", "u4"}
       /\ prs["p1"] # NoRow /\ prs["p1"].author = "u1" /\ prs["p1"].status = "OPEN"
       /\ reviewers["p1"] = {}
       /\ Cardinality(result[p].reassignments) = 2
       /\ \A r \in result[p].reassignments : r.pr_id = "p1" /\ r.new = None

\* C24 (as claimed): the swaps of a DeactivateTeam that found a PR with two
\* deactivated reviewers, and whose statements do not fail in the storage,
\* commit, and no two records of one PR name the same replacement.
C24_CascadeReplacementsDistinct ==
    [][\A p \in Procs :
          (/\ pc[p] = "DeactivateTeam_reassignReviewers"
           /\ Step(p)
           /\ \E pr \in loc[p].affected : Cardinality(pr.reviewers) = 2
           /\ ~(pc'[p] = "idle" /\ result'[p].err = Unavailable))
          => /\ pc'[p] = "idle"
             /\ result'[p].err = OK
             /\ \A r1, r2 \in result'[p].reassignments :
                   (r1 # r2 /\ r1.pr_id = r2.pr_id /\ r1.new # None) => r1.new # r2.new]_vars

\* C25 (as claimed): the list a DeactivateTeam draws the replacement of a
\* deactivated reviewer from never holds the PR's author or a user who is a
\* reviewer of the PR, deactivated or not.
C25_CascadeExcludesCurrentReviewers ==
    \A p \in Procs :
       pc[p] = "DeactivateTeam_reassignReviewers"
       => \A pr \in loc[p].affected : \A old \in pr.reviewers :
             filtered(loc[p], pr, old) \cap (reviewers[pr.prID] \cup {pr.authorID}) = {}

\* C26: with requests served one at a time, a DeactivateTeam that succeeds
\* returns one record for each pair of an OPEN PR and a user it deactivated who
\* was a reviewer of that PR, and no other record; after it the old reviewer of
\* a record is not a reviewer of the PR, and the new one, unless empty, is.
C26_OneRecordPerStaleReviewer ==
    [][\A p \in Procs :
          (/\ Step(p)
           /\ StepOp(p) = "DeactivateTeam"
           /\ pc'[p] = "idle"
           /\ result'[p].err = OK)
          => LET D == ActiveOfTeam(users, result'[p].teamName)
                 pairs == {pair \in PRIds \X UserIds :
                             /\ prs[pair[1]] # NoRow
                             /\ prs[pair[1]].status = "OPEN"
                             /\ pair[2] \in reviewers[pair[1]] \cap D}
                 records == result'[p].reassignments
             IN /\ {<<r.pr_id, r.old>> : r \in records} = pairs
                /\ Cardinality(records) = Cardinality(pairs)
                /\ \A r \in records :
                      /\ r.old \notin reviewers'[r.pr_id]
                      /\ r.new # None => r.new \in reviewers'[r.pr_id]]_vars

\* C26 witness: a DeactivateTeam returned more than two records, for the
\* deactivated reviewers of two OPEN PRs.
C26_Witness ==
    \E p \in Procs :
       /\ result[p].op = "DeactivateTeam" /\ result[p].err = OK
       /\ {r.pr_id : r \in result[p].reassignments} = PRIds
       /\ Cardinality(result[p].reassignments) > 2

\* C27: with requests served one at a time, no step of a DeactivateTeam changes
\* a PR row (status, author, name, mergedAt), the reviewers of a MERGED PR, the
\* reviewers of an OPEN PR none of whose reviewers it deactivates, or removes a
\* reviewer it does not deactivate.
C27_CascadeTouchesOnlyStale ==
    [][\A p \in Procs :
          (Step(p) /\ StepOp(p) = "DeactivateTeam")
          => LET D == IF pc[p] = "idle" THEN {}
                      ELSE ActiveOfTeam(users, loc[p].teamName)
             IN /\ prs' = prs
                /\ teams' = teams
                /\ \A id \in PRIds :
                      /\ (prs[id] # NoRow /\ prs[id].status = "MERGED")
                            => reviewers'[id] = reviewers[id]
                      /\ reviewers[id] \cap D = {} => reviewers'[id] = reviewers[id]
                      /\ reviewers[id] \ D \subseteq reviewers'[id]]_vars

\* C27 witness: a DeactivateTeam committed and removed a reviewer of an OPEN
\* PR, whose author and other reviewer, members of another team, are as before.
C27_Witness ==
    \E p \in Procs : \E r \in result[p].reassignments :
       /\ result[p].op = "DeactivateTeam" /\ result[p].err = OK
       /\ prs[r.pr_id].status = "OPEN"
       /\ prs[r.pr_id].author \notin result[p].deactivated
       /\ \E u \in reviewers[r.pr_id] :
             users[u].is_active /\ users[u].team_name # result[p].teamName

\* C28: a DeactivateTeam or a GetTeam that arrives when no team has the name it
\* gives returns TeamNotFound at once and writes nothing, requests overlapping
\* or not.
C28_UnknownTeamFails ==
    [][\A p \in Procs :
          (/\ ops' = ops + 1
           /\ p = Beginner
           /\ StepOp(p) \in {"DeactivateTeam", "GetTeam"}
           /\ (IF pc'[p] = "idle" THEN result'[p].teamName ELSE loc'[p].teamName)
                 \notin teams)
          => /\ pc'[p] = "idle"
             /\ result'[p].err = "TeamNotFound"
             /\ db' = db]_vars

\* C28 witness: a DeactivateTeam and a GetTeam were both answered TeamNotFound
\* for a name that is the name of no team, while a PR has reviewers, who are
\* active.
C28_Witness ==
    \E p, q \in Procs :
       /\ result[p].op = "DeactivateTeam" /\ result[p].err = "TeamNotFound"
       /\ result[q].op = "GetTeam" /\ result[q].err = "TeamNotFound"
       /\ result[p].teamName \notin teams
       /\ result[q].teamName \notin teams
       /\ \E id \in PRIds : reviewers[id] # {} /\ \A u \in reviewers[id] : users[u].is_active

\* C29 (as claimed): with requests served one at a time, when a
\* CreatePullRequest, MergePullRequest, ReassignReviewer, SetUserActive,
\* CreateTeam or DeactivateTeam returns an error, from whichever of its steps,
\* the tables are what they were when the request arrived.
C29_ErrorLeavesStateUnchanged ==
    [][\A p \in Procs :
          (/\ Step(p)
           /\ StepOp(p) \in {"CreatePullRequest", "MergePullRequest", "ReassignReviewer",
                              "SetUserActive", "CreateTeam", "DeactivateTeam"}
           /\ pc'[p] = "idle"
           /\ result'[p].err # OK)
          => tables' = (IF pc[p] = "idle" THEN tables ELSE before)]_vars

\* C30 (as claimed): when a CreatePullRequest, a ReassignReviewer or a
\* DeactivateTeam commits reviewer rows, every user it inserts is active in the
\* committed users table, and the reviewers a ReassignReviewer read for its
\* exclusion set are the reviewers the PR has when it writes.
C30_ReadAndWriteInOneTransaction ==
    [][\A p \in Procs :
          (/\ pc[p] \in {"CreatePullRequest_CreatePR", "ReassignReviewer_ReplaceReviewer",
                         "DeactivateTeam_reassignReviewers"}
           /\ Step(p)
           /\ reviewers' # reviewers)
          => /\ \A id \in PRIds : \A u \in reviewers'[id] \ reviewers[id] :
                   users'[u] # NoRow /\ users'[u].is_active
             /\ pc[p] = "ReassignReviewer_ReplaceReviewer"
                   => loc[p].revs = reviewers[loc[p].prID]]_vars

\* C31: a CreateTeam that arrives when its team name is taken returns
\* TeamExists at once and leaves every table as it was: no team is added and no
\* user row is inserted or modified; and no CreateTeam whose name is taken when
\* it reaches its transaction changes anything.
C31_TakenNameFails ==
    [][\A p \in Procs :
          /\ (/\ ops' = ops + 1
              /\ p = Beginner
              /\ StepOp(p) = "CreateTeam"
              /\ (IF pc'[p] = "idle" THEN result'[p].teamName ELSE loc'[p].teamName)
                    \in teams)
             => /\ pc'[p] = "idle"
                /\ result'[p].err = "TeamExists"
                /\ teams' = teams
                /\ users' = users
                /\ db' = db
          /\ (/\ pc[p] = "CreateTeam_CreateTeam"
              /\ Step(p)
              /\ loc[p].teamName \in teams)
             => db' = db]_vars

\* C31 witness: TeamExists was returned for t1, whose request lists u2 under
\* another display name, and the row of u2 is what it was at the start.
C31_Witness ==
    \E p \in Procs :
       /\ result[p].op = "CreateTeam" /\ result[p].err = "TeamExists"
       /\ result[p].teamName = "t1"
       /\ users["u2"] = UserRow("u2", "t1", TRUE)
       /\ teams = {"t1", "t2"}

\* C32: with requests served one at a time, a SetUserActive on the id of a user
\* sets the active flag of that row to the given value and changes no other
\* column, no other user, no team, no PR and no reviewer; when its re-read is
\* answered it returns that row, carrying the given flag. On the id of no user
\* it returns UserNotFound and changes nothing.
C32_SetUserActiveSetsOneFlag ==
    [][\A p \in Procs :
          /\ (ops' = ops + 1 /\ p = Beginner /\ StepOp(p) = "SetUserActive")
             => LET uid == Arg(p)'
                IN IF users[uid] = NoRow
                   THEN /\ pc'[p] = "idle"
                        /\ result'[p].err = "UserNotFound"
                        /\ db' = db
                   ELSE /\ pc'[p] = "SetUserActive_GetUser"
                        /\ users'[uid] = [users[uid] EXCEPT !.is_active = loc'[p].active]
                        /\ \A v \in UserIds \ {uid} : users'[v] = users[v]
                        /\ <<teams, prs, reviewers>>' = <<teams, prs, reviewers>>
          /\ (pc[p] = "SetUserActive_GetUser" /\ Step(p) /\ ~StorageFails(p))
             => /\ pc'[p] = "idle"
                /\ result'[p].err = OK
                /\ result'[p].user = users[loc[p].uid]
                /\ result'[p].user.is_active = loc[p].active
                /\ db' = db]_vars

\* C32 witness: SetUserActive returned u2 as inactive while u2 is a reviewer of
\* a PR, and u2 is still one of its reviewers.
C32_Witness ==
    \E p \in Procs :
       /\ result[p].op = "SetUserActive" /\ result[p].err = OK
       /\ result[p].uid = "u2"
       /\ result[p].user = UserRow("u2", "t1", FALSE)
       /\ users["u2"] = result[p].user
       /\ \E id \in PRIds : "u2" \in reviewers[id]

\* C33: a GetUserReviews succeeds, changes nothing, and lists one entry for each
\* stored PR, OPEN or MERGED, that has the user among its reviewers when the
\* request is served, with the name, author and status of that PR, and no other
\* entry; for the id of no user, or of a user who reviews nothing, the list is
\* empty.
C33_ReviewsAreCurrentAssignments ==
    [][\A p \in Procs :
          (ops' = ops + 1 /\ p = Beginner /\ StepOp(p) = "GetUserReviews")
          => LET uid == result'[p].uid
             IN /\ pc'[p] = "idle"
                /\ result'[p].err = OK
                /\ db' = db
                /\ {r.id : r \in result'[p].reviews}
                      = {id \in PRIds : prs[id] # NoRow /\ uid \in reviewers[id]}
                /\ Cardinality(result'[p].reviews)
                      = Cardinality({r.id : r \in result'[p].reviews})
                /\ \A r \in result'[p].reviews :
                      /\ r.name = prs[r.id].name
                      /\ r.author = prs[r.id].author
                      /\ r.status = prs[r.id].status
                /\ (users[uid] = NoRow \/ \A id \in PRIds : uid \notin reviewers[id])
                      => result'[p].reviews = {}]_vars

\* C33 witness: u2 was replaced as a reviewer of a PR, and the GetUserReviews
\* of u2 served after that lists nothing, while the PR is stored.
C33_Witness ==
    \E p \in Procs : \E q \in Procs :
       /\ result[p].op = "GetUserReviews" /\ result[p].err = OK
       /\ result[p].uid = "u2"
       /\ result[p].reviews = {}
       /\ result[q].op = "ReassignReviewer" /\ result[q].err = OK
       /\ result[q].uid = "u2"
       /\ prs[result[q].prID] # NoRow
       /\ "u2" \notin reviewers[result[q].prID]

\* C34 (as claimed): no two requests are inside a call on the shared randomness
\* source (rng.Shuffle of CreatePullRequest, rng.Intn of ReassignReviewer and of
\* the cascade) at the same time.
C34_RngCallsExcludeEachOther ==
    \A p \in Procs : \A q \in Procs \ {p} : ~(InRng(p) /\ InRng(q))

\* C35: the snapshot a cascade takes holds, per team, the users who are then
\* active members of the team, none of whom is a user the cascade deactivated;
\* and every replacement a committed cascade records is a user of the snapshot
\* of the team of the stale reviewer it replaces, is not one of the deactivated
\* users, and is the reviewer inserted in that PR.
C35_ReplacementFromSnapshot ==
    [][\A p \in Procs :
          /\ (/\ pc[p] = "DeactivateTeam_getActiveUsersByTeam"
              /\ pc'[p] \in {"DeactivateTeam_Intn", "DeactivateTeam_reassignReviewers"})
             => \A t \in TeamNames :
                   loc'[p].candidates[t]
                      = {u \in UserIds : /\ users[u] # NoRow
                                         /\ users[u].team_name = t
                                         /\ users[u].is_active
                                         /\ u \notin loc[p].deactivated}
          /\ (/\ pc[p] = "DeactivateTeam_reassignReviewers"
              /\ pc'[p] = "idle"
              /\ result'[p].err = OK)
             => \A r \in result'[p].reassignments :
                   r.new # None
                   => /\ r.new \in loc[p].candidates[loc[p].userTeams[r.old]]
                      /\ r.new \notin loc[p].deactivated
                      /\ r.new \notin result'[p].deactivated
                      /\ r.new \in reviewers'[r.pr_id]
                      /\ r.new \notin reviewers[r.pr_id]]_vars

\* C35 witness: a cascade that deactivated u2, a reviewer of p1, returned a
\* record with a replacement, who is now an active reviewer of p1.
C35_Witness ==
    \E p \in Procs : \E r \in result[p].reassignments :
       /\ result[p].op = "DeactivateTeam" /\ result[p].err = OK
       /\ r.old \in result[p].deactivated
       /\ r.new # None
       /\ r.new \in reviewers[r.pr_id]
       /\ users[r.new].is_active

\* C36: with requests served one at a time, the snapshot of a DeactivateTeam
\* holds no active user of the team of any user it deactivated, so that the
\* cascade makes no call on rng; every record it returns has an empty new
\* reviewer, and its commit adds no reviewer to any PR.
C36_SerialCascadeOnlyDrops ==
    [][\A p \in Procs :
          /\ (/\ pc[p] = "DeactivateTeam_getActiveUsersByTeam"
              /\ Step(p)
              /\ ~StorageFails(p))
             => /\ pc'[p] = "DeactivateTeam_reassignReviewers"
                /\ \A d \in loc[p].deactivated :
                      loc'[p].candidates[loc'[p].userTeams[d]] = {}
          /\ (/\ pc[p] = "DeactivateTeam_reassignReviewers"
              /\ pc'[p] = "idle"
              /\ result'[p].err = OK)
             => /\ \A r \in result'[p].reassignments : r.new = None
                /\ \A id \in PRIds : reviewers'[id] \subseteq reviewers[id]]_vars

\* C36 witness: DeactivateTeam(t3) dropped u2 from a PR whose author is in
\* another team, a team that has an active member who is neither the author nor
\* a reviewer of the PR.
C36_Witness ==
    \E p \in Procs : \E r \in result[p].reassignments :
       /\ result[p].op = "DeactivateTeam" /\ result[p].err = OK
       /\ result[p].teamName = "t3"
       /\ r.old = "u2" /\ r.new = None
       /\ LET pr == prs[r.pr_id]
          IN /\ users[pr.author].team_name = "t1"
             /\ ActiveOfTeam(users, "t1") \ ({pr.author} \cup reviewers[r.pr_id]) # {}

\* C37: in every state, a stored PR has a mergedAt (a time other than 0, the
\* null of the model) exactly when its status is MERGED; and no step changes
\* the mergedAt or the status of a PR that has one, whatever requests overlap.
C37_MergedAtWrittenOnce ==
    /\ [](\A id \in PRIds :
            prs[id] # NoRow => (prs[id].mergedAt # 0 <=> prs[id].status = "MERGED"))
    /\ [][\A id \in PRIds :
            (prs[id] # NoRow /\ prs[id].mergedAt # 0)
            => /\ prs'[id] # NoRow
               /\ prs'[id].mergedAt = prs[id].mergedAt
               /\ prs'[id].status = "MERGED"]_vars

\* C37 witness: two MergePullRequest of the same PR have both run their UPDATE
\* (each read the PR as OPEN), and the PR carries the one stamp of the first.
C37_Witness ==
    /\ \A p \in Procs : pc[p] = "MergePullRequest_GetPR2"
    /\ loc["w1"].prID = loc["w2"].prID
    /\ prs[loc["w1"].prID].status = "MERGED"
    /\ prs[loc["w1"].prID].mergedAt = 1
    /\ now = 2

\* C38: when a CreateTeam commits, the team exists and every member it lists is
\* a user of that team with the listed display name and active flag, also a
\* member that was a user of another team before; the other users are as they
\* were. In every state every user is in a team that exists.
C38_CreateTeamUpsertsMembers ==
    /\ [](\A u \in UserIds : users[u] # NoRow => users[u].team_name \in teams)
    /\ [][\A p \in Procs :
            (/\ pc[p] = "CreateTeam_CreateTeam"
             /\ pc'[p] = "idle"
             /\ result'[p].err = OK)
            => /\ loc[p].teamName \in teams' \ teams
               /\ \A m \in loc[p].members :
                     users'[m.user_id]
                        = [username |-> m.username, team_name |-> loc[p].teamName,
                           is_active |-> m.is_active]
               /\ \A u \in UserIds \ {m.user_id : m \in loc[p].members} :
                     users'[u] = users[u]]_vars

\* C38 witness: CreateTeam(t3) succeeded and u3, an active user of t1 at the
\* start, is an inactive user of t3 under the listed name, next to the new u8.
C38_Witness ==
    \E p \in Procs :
       /\ result[p].op = "CreateTeam" /\ result[p].err = OK
       /\ result[p].teamName = "t3"
       /\ users["u3"] = UserRow("x", "t3", FALSE)
       /\ users["u8"] = UserRow("x", "t3", TRUE)

\* The sum of the assignment counts of a per-user breakdown.
RECURSIVE SumAssignments(_)
SumAssignments(rows) ==
    IF rows = {} THEN 0
    ELSE LET row == CHOOSE r \in rows : TRUE
         IN row.assignments + SumAssignments(rows \ {row})

\* The sum of the reviewer counts of a per-PR breakdown.
RECURSIVE SumReviewers(_)
SumReviewers(rows) ==
    IF rows = {} THEN 0
    ELSE LET row == CHOOSE r \in rows : TRUE
         IN row.reviewers + SumReviewers(rows \ {row})

\* C39 (as claimed): in every Stats that GetStats returns, open_prs +
\* merged_prs = total_prs and the reviewer counts per PR sum to the assignment
\* counts per user, whatever commits between its queries; and no step of a
\* GetStats changes a table.
C39_StatsConsistent ==
    /\ [](\A p \in Procs :
            (result[p].op = "GetStats" /\ result[p].err = OK)
            => /\ result[p].stats.open_prs + result[p].stats.merged_prs
                     = result[p].stats.total_prs
               /\ SumReviewers(result[p].stats.reviewers_by_pr)
                     = SumAssignments(result[p].stats.assignments_by_user))
    /\ [][\A p \in Procs : (Step(p) /\ StepOp(p) = "GetStats") => db' = db]_vars

====
